---- MODULE Spec2Model ----
(***************************************************************************)
(* Model of the VT168 picture processing unit of openvtx (src/src/ppu.cpp):*)
(* the register port, the frame clock, the render worker and its           *)
(* synchronisation with the CPU context, and the layer compositor.         *)
(*                                                                         *)
(* Representation.  Byte arrays (ppu_regs, ppu_regs_shadow, vram, spram)   *)
(* are zero-initialised statics; each is kept as the function of its       *)
(* non-zero bytes and read through Rd, written through Wr.  A 32-bit layer *)
(* cell is the pair <<low half, high half>> of its two 16-bit words and an *)
(* ARGB8888 pixel the tuple <<A, R, G, B>> of its four bytes (bits 31..24, *)
(* 23..16, 15..8, 7..0).                                                   *)
(*                                                                         *)
(* Rendering.  Of the 256 x 256 layers and the output buffer the cells     *)
(* (x, WinRow) with x in Win are kept.  The blitter, the sprite renderer   *)
(* and the background renderer are computed as the code computes them and *)
(* projected onto these cells: a blit changes a kept cell through the one  *)
(* texel that falls on it, decoded at the source position the loops have   *)
(* reached by then.  The character ROM is the byte sequence RomByte.  A    *)
(* sample that vt_blit reads without having assigned it may hold any value *)
(* of JunkSamples, chosen anew in every drawing step.                      *)
(***************************************************************************)
EXTENDS Integers, Sequences, FiniteSets, TLC

(***************************************************************************)
(* Bit helpers                                                             *)
(***************************************************************************)
\* x >> n
Shr(x, n) == x \div (2 ^ n)

\* x & (2^n - 1)
LowBits(x, n) == x % (2 ^ n)

\* util.hpp get_bit(x, n)
get_bit(x, n) == (x \div (2 ^ n)) % 2 = 1

\* the byte array m read at index a
Rd(m, a) == IF a \in DOMAIN m THEN m[a] ELSE 0

\* the byte array m with m[a] = v
Wr(m, a, v) ==
  IF v = 0
  THEN [x \in (DOMAIN m) \ {a} |-> m[x]]
  ELSE [x \in (DOMAIN m) \cup {a} |-> IF x = a THEN v ELSE m[x]]

\* an array holding only zero bytes
Zeroes == [x \in {} |-> 0]

(***************************************************************************)
(* Program constants                                                       *)
(***************************************************************************)
vblank_start == 0
vblank_len == 22036
v_total == 106392

reg_ppu_stat == 1
reg_spram_addr_msb == 2
reg_spram_addr_lsb == 3
reg_spram_data == 4
reg_vram_addr_lsb == 5
reg_vram_addr_msb == 6
reg_vram_data == 7
reg_pal_sel == 14
reg_bkg_ctrl2_0 == 19
reg_bkg_ctrl2_1 == 23
reg_sp_ctrl == 24

NumRegs == 256
VramSize == 8192
SpramSize == 2048

(***************************************************************************)
(* Bounds of the model                                                     *)
(***************************************************************************)
\* frames (wraparounds of the tick counter) the CPU context runs through
MaxFrames == 2
\* register-port calls the CPU context makes in one run
MaxOps == 3
\* output pixels of row 0 kept by the model
WinW == 2

(***************************************************************************)
(* State                                                                   *)
(***************************************************************************)
VARIABLES
  ppu_regs,         \* the register file
  ppu_regs_shadow,  \* the worker's private copy
  vram, spram,
  rom,              \* the character ROM behind read_mem_physical
  layers,           \* layers[l][x]: cell <<bank 0 half, bank 1 half>>
  obuf,             \* obuf[x]: <<A, R, G, B>>
  ticks,
  render_ready, kill_renderer, render_done,
  do_render_m,      \* owner of the mutex: "free", "cpu" or "render"
  regs_mutex,
  cpu_pc, cpu_tmp,  \* position of the CPU context inside a PPU call
  ret,              \* value returned by the last ppu_read
  wpc, copy_i, merge_i, sp_i, \* position of the render worker
  ppc,              \* position of the presenter
  g_call,           \* history: the last register-port call
  g_win,            \* history: VRAM window start and the bytes written since
  g_ops, g_calls, g_wraps, g_signals, g_passes,  \* history counters
  g_snaps,          \* history: register files held since the last signal
  g_blit,           \* history: the texels the last drawing step blitted
  g_vlast           \* history: the last byte stored through port 0x07, by
                    \* window address

mem == <<ppu_regs, vram, spram, rom>>
cpu == <<cpu_pc, cpu_tmp, ret, ticks>>
sync == <<render_ready, kill_renderer, do_render_m>>
wrk == <<wpc, copy_i, merge_i, sp_i, ppu_regs_shadow, regs_mutex, render_done,
         layers, obuf>>
ghost == <<g_call, g_win, g_ops, g_calls, g_wraps, g_signals, g_passes,
           g_snaps, g_blit, g_vlast>>
vars == <<mem, cpu, sync, wrk, ppc, ghost>>

Win == 0 .. (WinW - 1)

(***************************************************************************)
(* Register port: ppu_read / ppu_write                                     *)
(***************************************************************************)
\* ((ppu_regs[0x02] & 0x07) << 8) | ppu_regs[0x03]
SpramAddr(regs) ==
  LowBits(Rd(regs, reg_spram_addr_msb), 3) * 256 + Rd(regs, reg_spram_addr_lsb)

\* ((ppu_regs[0x06] & 0x1F) << 8) | ppu_regs[0x05]
VramAddr(regs) ==
  LowBits(Rd(regs, reg_vram_addr_msb), 5) * 256 + Rd(regs, reg_vram_addr_lsb)

\* SpramNext skipping only when the low 3 bits are 7
SpramNext_Skip7(a) ==
  LET inc == (a + 1) % 65536
  IN IF LowBits(inc, 3) >= 7
     THEN ((inc - LowBits(inc, 3)) + 8) % 65536
     ELSE inc

\* spram_addr after "spram[spram_addr++] = data" and the skip of the two
\* reserved bytes (uint16_t arithmetic)
SpramNext(a) ==
  LET inc == (a + 1) % 65536
  IN IF LowBits(inc, 3) >= 6
     THEN ((inc - LowBits(inc, 3)) + 8) % 65536
     ELSE inc

\* vram_addr after "vram[vram_addr++] = data" (uint16_t)
VramNext(a) == (a + 1) % 65536

\* (spram_addr >> 8) & 0x07
SpramMsb(a) == LowBits(Shr(a, 8), 3)

\* VramMsb without the 13-bit mask
VramMsb_NoMask(a) == LowBits(Shr(a, 8), 8)

\* (vram_addr >> 8) & 0x1F
VramMsb(a) == LowBits(Shr(a, 8), 5)

\* addr & 0xFF
AddrLsb(a) == LowBits(a, 8)

\* bool ppu_is_vblank()
ppu_is_vblank == ticks >= vblank_start /\ ticks < vblank_len

\* ReadValue with the two data ports exchanged
ReadValue_Swapped(address) ==
  CASE address = reg_spram_data -> Rd(vram, VramAddr(ppu_regs))
    [] address = reg_vram_data -> Rd(spram, SpramAddr(ppu_regs))
    [] address = reg_ppu_stat -> (IF ppu_is_vblank THEN 1 ELSE 0) * 128
    [] OTHER -> Rd(ppu_regs, address)

\* the value ppu_read(address) returns
ReadValue(address) ==
  CASE address = reg_spram_data -> Rd(spram, SpramAddr(ppu_regs))
    [] address = reg_vram_data -> Rd(vram, VramAddr(ppu_regs))
    [] address = reg_ppu_stat -> (IF ppu_is_vblank THEN 1 ELSE 0) * 128
    [] OTHER -> Rd(ppu_regs, address)

\* uint8_t ppu_read(uint8_t address): no case of the switch stores anything
ppu_read(address) ==
  /\ cpu_pc = "idle"
  /\ ret' = ReadValue(address)
  /\ g_call' = [op |-> "read", addr |-> address, data |-> ret', pre |-> 0]
  /\ UNCHANGED <<mem, cpu_pc, cpu_tmp, ticks, sync, wrk, ppc, g_win, g_calls,
                 g_wraps, g_signals, g_passes, g_snaps,
                 g_blit, g_vlast>>

\* void ppu_write(uint8_t address, uint8_t data): entry and first store.
\* The two data ports go on to store the incremented address in two further
\* steps (WriteMsb, WriteLsb); every other address is one store.
ppu_write(address, data) ==
  /\ cpu_pc = "idle"
  /\ CASE address = reg_spram_data ->
            LET a == SpramAddr(ppu_regs) IN
            /\ spram' = Wr(spram, a, data)
            /\ cpu_tmp' = SpramNext(a)
            /\ cpu_pc' = "spram_msb"
            /\ g_call' = [op |-> "write", addr |-> address, data |-> data,
                          pre |-> a]
            /\ UNCHANGED <<ppu_regs, vram, g_win, g_snaps, g_vlast>>
       [] address = reg_vram_data ->
            LET a == VramAddr(ppu_regs) IN
            /\ vram' = Wr(vram, a, data)
            /\ cpu_tmp' = VramNext(a)
            /\ cpu_pc' = "vram_msb"
            /\ g_call' = [op |-> "write", addr |-> address, data |-> data,
                          pre |-> a]
            /\ g_vlast' = Wr(g_vlast, (g_win.A + Len(g_win.data)) % VramSize,
                            data)
            /\ g_win' = [g_win EXCEPT !.data = Append(@, data)]
            /\ UNCHANGED <<ppu_regs, spram, g_snaps>>
       [] OTHER ->
            /\ ppu_regs' = Wr(ppu_regs, address, data)
            /\ g_call' = [op |-> "write", addr |-> address, data |-> data,
                          pre |-> 0]
            /\ g_win' = IF address \in {reg_vram_addr_msb, reg_vram_addr_lsb}
                        THEN [A |-> VramAddr(ppu_regs'), data |-> <<>>]
                        ELSE g_win
            /\ g_snaps' = g_snaps \cup {ppu_regs'}
            /\ UNCHANGED <<vram, spram, cpu_pc, cpu_tmp, g_vlast>>
  /\ UNCHANGED <<rom, ret, ticks, sync, wrk, ppc, g_calls, g_wraps, g_signals,
                 g_passes, g_blit>>

\* ppu_regs[reg_spram_addr_msb] = ... / ppu_regs[reg_vram_addr_msb] = ...
WriteMsb ==
  /\ cpu_pc \in {"spram_msb", "vram_msb"}
  /\ IF cpu_pc = "spram_msb"
     THEN /\ ppu_regs' = Wr(ppu_regs, reg_spram_addr_msb, SpramMsb(cpu_tmp))
          /\ cpu_pc' = "spram_lsb"
     ELSE /\ ppu_regs' = Wr(ppu_regs, reg_vram_addr_msb, VramMsb(cpu_tmp))
          /\ cpu_pc' = "vram_lsb"
  /\ UNCHANGED <<vram, spram, rom, cpu_tmp, ret, ticks, sync, wrk, ppc,
                 ghost>>

\* ppu_regs[reg_spram_addr_lsb] = ... / ppu_regs[reg_vram_addr_lsb] = ...;
\* the call returns
WriteLsb ==
  /\ cpu_pc \in {"spram_lsb", "vram_lsb"}
  /\ IF cpu_pc = "spram_lsb"
     THEN ppu_regs' = Wr(ppu_regs, reg_spram_addr_lsb, AddrLsb(cpu_tmp))
     ELSE ppu_regs' = Wr(ppu_regs, reg_vram_addr_lsb, AddrLsb(cpu_tmp))
  /\ cpu_pc' = "idle"
  /\ g_snaps' = g_snaps \cup {ppu_regs'}
  /\ UNCHANGED <<vram, spram, rom, cpu_tmp, ret, ticks, sync, wrk, ppc,
                 g_call, g_win, g_ops, g_calls, g_wraps, g_signals, g_passes,
                 g_blit, g_vlast>>

(***************************************************************************)
(* Frame pump: ppu_tick, ppu_stop                                          *)
(***************************************************************************)
\* TickWraps comparing with > instead of >=
TickWraps_Late(t) == t > v_total

\* "ticks >= v_total" after the increment
TickWraps(t) == t >= v_total

\* "ticks == vblank_len" after the increment
TickSignals(t) == t = vblank_len

\* what notify_one does to the worker: a worker blocked in wait() is woken
Notified(pc) == IF pc = "asleep" THEN "woken" ELSE pc

\* void ppu_tick(): the increment and the two comparisons.  The call that
\* reaches vblank_len goes on to take do_render_m (TickLock, TickSet,
\* TickNotify).
ppu_tick ==
  /\ cpu_pc = "idle"
  /\ g_wraps < MaxFrames
  /\ LET t == ticks + 1 IN
     IF TickWraps(t)
     THEN /\ ticks' = 0
          /\ g_wraps' = g_wraps + 1
          /\ cpu_pc' = "idle"
     ELSE /\ ticks' = t
          /\ g_wraps' = g_wraps
          /\ cpu_pc' = IF TickSignals(t) THEN "tick_lock" ELSE "idle"
  /\ g_calls' = g_calls + 1
  /\ UNCHANGED <<mem, cpu_tmp, ret, sync, wrk, ppc, g_call, g_win, g_ops,
                 g_signals, g_passes, g_snaps,
                 g_blit, g_vlast>>

\* the number of the next call of ppu_tick that takes a branch, counted in
\* ticks: vblank_len or v_total
NextBranch(t) == IF t < vblank_len THEN vblank_len ELSE v_total

\* The CPU context calls ppu_tick once per clock; all the calls before the
\* next one that takes a branch only increment ticks, which no other context
\* reads, and are taken together.
ppu_tick_run ==
  /\ cpu_pc = "idle"
  /\ g_wraps < MaxFrames
  /\ ticks + 1 < NextBranch(ticks)
  /\ ticks' = NextBranch(ticks) - 1
  /\ g_calls' = g_calls + (ticks' - ticks)
  /\ UNCHANGED <<mem, cpu_pc, cpu_tmp, ret, sync, wrk, ppc, g_call, g_win,
                 g_ops, g_wraps, g_signals, g_passes, g_snaps,
                 g_blit, g_vlast>>

\* lock_guard<mutex> lk(do_render_m) in ppu_tick
TickLock ==
  /\ cpu_pc = "tick_lock"
  /\ do_render_m = "free"
  /\ do_render_m' = "cpu"
  /\ cpu_pc' = "tick_set"
  /\ UNCHANGED <<mem, cpu_tmp, ret, ticks, render_ready, kill_renderer, wrk,
                 ppc, ghost>>

\* render_ready = true; the guard goes out of scope
TickSet ==
  /\ cpu_pc = "tick_set"
  /\ render_ready' = TRUE
  /\ do_render_m' = "free"
  /\ cpu_pc' = "tick_notify"
  /\ g_signals' = g_signals + 1
  /\ g_snaps' = {ppu_regs}
  /\ UNCHANGED <<mem, cpu_tmp, ret, ticks, kill_renderer, wrk, ppc, g_call,
                 g_win, g_ops, g_calls, g_wraps, g_passes, g_blit, g_vlast>>

\* do_render_cv.notify_one() in ppu_tick
TickNotify ==
  /\ cpu_pc = "tick_notify"
  /\ wpc' = Notified(wpc)
  /\ cpu_pc' = "idle"
  /\ UNCHANGED <<mem, cpu_tmp, ret, ticks, sync, copy_i, merge_i, sp_i,
                 ppu_regs_shadow, regs_mutex, render_done, layers, obuf, ppc,
                 ghost>>

\* void ppu_stop(): lock_guard<mutex> lk(do_render_m)
ppu_stop ==
  /\ cpu_pc = "idle"
  /\ ~kill_renderer
  /\ do_render_m = "free"
  /\ do_render_m' = "cpu"
  /\ cpu_pc' = "stop_ready"
  /\ UNCHANGED <<mem, cpu_tmp, ret, ticks, render_ready, kill_renderer, wrk,
                 ppc, ghost>>

\* render_ready = true
StopReady ==
  /\ cpu_pc = "stop_ready"
  /\ render_ready' = TRUE
  /\ cpu_pc' = "stop_kill"
  /\ UNCHANGED <<mem, cpu_tmp, ret, ticks, kill_renderer, do_render_m, wrk,
                 ppc, ghost>>

\* kill_renderer = true; the guard goes out of scope
StopKill ==
  /\ cpu_pc = "stop_kill"
  /\ kill_renderer' = TRUE
  /\ do_render_m' = "free"
  /\ cpu_pc' = "stop_notify"
  /\ UNCHANGED <<mem, cpu_tmp, ret, ticks, render_ready, wrk, ppc, ghost>>

\* do_render_cv.notify_one() in ppu_stop
StopNotify ==
  /\ cpu_pc = "stop_notify"
  /\ wpc' = Notified(wpc)
  /\ cpu_pc' = "idle"
  /\ UNCHANGED <<mem, cpu_tmp, ret, ticks, sync, copy_i, merge_i, sp_i,
                 ppu_regs_shadow, regs_mutex, render_done, layers, obuf, ppc,
                 ghost>>

(***************************************************************************)
(* Compositor                                                              *)
(***************************************************************************)
\* the transparent TRGB1555 sample and the cell clear_layer fills with
Transp == 32768
ClearCell == <<Transp, Transp>>

\* !(x & 0x8000) on a 16-bit sample
Solid(x) == ~get_bit(x, 15)

\* uint16_t blend_argb1555(uint16_t a, uint16_t b); the three fields occupy
\* disjoint bits, so OR is addition
blend_argb1555(a, b) ==
  IF ~Solid(a) THEN b
  ELSE IF ~Solid(b) THEN a
  ELSE LowBits((LowBits(a, 5) + LowBits(b, 5)) \div 2, 5)
       + LowBits((LowBits(Shr(a, 5), 5) + LowBits(Shr(b, 5), 1)) \div 2, 5) * 32
       + LowBits((LowBits(Shr(a, 11), 5) + LowBits(Shr(b, 11), 5)) \div 2, 5)
           * 1024

\* uint8_t c5_to_8(uint8_t x)
c5_to_8(x) == LowBits(x * 8, 8) + (IF get_bit(x, 0) THEN 7 ELSE 0)

\* uint32_t argb1555_to_rgb8888(uint16_t x), as the bytes <<A, R, G, B>>
argb1555_to_rgb8888(x) ==
  LET r == LowBits(x, 5)
      g == LowBits(Shr(x, 5), 5)
      b == LowBits(Shr(x, 10), 5)
  IN IF get_bit(x, 15)
     THEN <<255, 0, 0, 0>>
     ELSE <<255, c5_to_8(r), c5_to_8(g), c5_to_8(b)>>

\* MergeFold keeping the first solid sample it meets
RECURSIVE MergeFold_First(_, _, _)
MergeFold_First(stack, l, acc) ==
  IF l < 0 THEN acc
  ELSE LET raw == stack[l]
           p0 == IF Solid(acc[1]) THEN acc[1] ELSE raw[1]
           p1 == IF Solid(acc[2]) THEN acc[2] ELSE raw[2]
       IN MergeFold_First(stack, l - 1, <<p0, p1>>)

\* the loop "for (int l = 3; l >= 0; l--)" of merge_layers over the cells
\* stack[0..3] of one pixel, from layer l down, starting from <<pal0, pal1>>
RECURSIVE MergeFold(_, _, _)
MergeFold(stack, l, acc) ==
  IF l < 0 THEN acc
  ELSE LET raw == stack[l]
           p0 == IF Solid(raw[1]) THEN raw[1] ELSE acc[1]
           p1 == IF Solid(raw[2]) THEN raw[2] ELSE acc[2]
       IN MergeFold(stack, l - 1, <<p0, p1>>)

\* res of merge_layers(false) for the samples pal0, pal1 under reg 0x0E
MergeRes(palsel, pal0, pal1) ==
  LET output_pal0 == get_bit(palsel, 1)
      output_pal1 == get_bit(palsel, 3)
      blend_pal == get_bit(palsel, 4)
      r1 == IF blend_pal /\ output_pal0 /\ output_pal1
            THEN blend_argb1555(pal0, pal1) ELSE Transp
      r2 == IF output_pal0 /\ Solid(pal0) THEN pal0 ELSE r1
  IN IF output_pal1 /\ Solid(pal1) THEN pal1 ELSE r2

\* the value merge_layers stores in obuf for the pixel whose cells are stack
MergePixel(palsel, stack) ==
  LET acc == MergeFold(stack, 3, <<Transp, Transp>>)
  IN argb1555_to_rgb8888(MergeRes(palsel, acc[1], acc[2]))

(***************************************************************************)
(* Blitter: vt_blit, and the character data it reads                       *)
(***************************************************************************)
\* layer_width, layer_height as ppu_init sets them
layer_width == 256
layer_height == 256

\* the row of the layers and of the output buffer the model keeps: the
\* cells (x, WinRow) for x in Win
WinRow == 0

\* bitwise OR of two naturals
RECURSIVE BitOr(_, _)
BitOr(a, b) ==
  IF a = 0 THEN b
  ELSE IF b = 0 THEN a
  ELSE (IF a % 2 = 1 \/ b % 2 = 1 THEN 1 ELSE 0)
       + 2 * BitOr(a \div 2, b \div 2)

\* a ROM with no data, and the byte read_mem_physical(pa) returns: rom is
\* <<first byte, step>>, the byte at pa being first + step * pa
NoRom == <<0, 0>>
RomByte(pa) == (rom[1] + rom[2] * pa) % 256

\* bpp of get_char_data
Bpp(fmt) ==
  CASE fmt = "ARGB1555" -> 16
    [] fmt = "IDX_256" -> 8
    [] fmt = "IDX_64" -> 6
    [] fmt = "IDX_16" -> 4
    [] fmt = "IDX_4" -> 2

\* get_char_data: the physical address pa the w * h * bpp / 8 bytes of the
\* buffer are read from
get_char_data(seg, vector, w, h, fmt, bmp) ==
  LET spacing0 == IF bmp \/ fmt = "ARGB1555" THEN 16 * 16 ELSE w * h
      spacing == (spacing0 * (IF Bpp(fmt) = 16 THEN 8 ELSE Bpp(fmt))) \div 8
  IN seg * 8192 + vector * spacing

\* src[i] of a buffer get_char_data filled from pa
SrcByte(pa, i) == RomByte(pa + i)

\* the test of a destination coordinate against the layer
InLayer(dx, dy) ==
  dx >= 0 /\ dx < layer_width /\ dy >= 0 /\ dy < layer_height

\* StreamAdvances for a blitter that tests the coordinate before decoding
StreamAdvances_Clipped(inside) == inside

\* whether the texel is decoded and the source position advanced, given the
\* result of the coordinate test: vt_blit decodes before it tests
StreamAdvances(inside) == TRUE

\* the number of texels decoded before texel n of a raster w wide blitted
\* at (dst_x, dst_y): the loops visit the texels row by row
TexelsBefore(w, dst_x, dst_y, n) ==
  Cardinality({m \in 0 .. (n - 1) :
                 StreamAdvances(InLayer(dst_x + (m % w), dst_y + (m \div w)))})

\* srcptr - src and src_bit after k texels were decoded: every decode of a
\* format moves the position by the same number of bits
SrcPos(fmt, k) ==
  [ptr |-> (k * Bpp(fmt)) \div 8, bit |-> (k * Bpp(fmt)) % 8]

\* raw of an indexed format, decoded at the position after k texels; -1 is
\* the assert(false) of the IDX_64 switch
TexelRaw(fmt, pa, k) ==
  LET p == SrcPos(fmt, k)
      b0 == SrcByte(pa, p.ptr)
      b1 == SrcByte(pa, p.ptr + 1)
  IN CASE fmt = "IDX_4" -> LowBits(Shr(b0, p.bit), 2)
       [] fmt = "IDX_16" -> LowBits(Shr(b0, p.bit), 4)
       [] fmt = "IDX_64" ->
            (CASE p.bit = 0 -> LowBits(b0, 6)
               [] p.bit = 2 -> LowBits(Shr(b0, 2), 6)
               [] p.bit = 4 -> Shr(b0, 4) + LowBits(b1, 2) * 16
               [] p.bit = 6 -> Shr(b0, 6) + LowBits(b1, 4) * 4
               [] OTHER -> -1)
       [] fmt = "IDX_256" -> b0

\* an absent palette (nullptr), and the two palette banks in VRAM
NoPal == -1
pal0_base == 7680
pal1_base == 7168

\* (pal[2 * raw + 1] << 8) | pal[2 * raw] for a palette at VRAM offset pal
PalEntry(pal, raw) ==
  Rd(vram, pal + 2 * raw + 1) * 256 + Rd(vram, pal + 2 * raw)

\* argb0 (argb1) of a texel with a non-zero index: the palette entry when
\* the palette pal is supplied; otherwise the variable, declared without an
\* initialiser inside the loop, is read unassigned and holds junk
PalSample(pal, raw, junk) ==
  IF pal # NoPal THEN PalEntry(pal, raw) ELSE junk

\* <<argb0, argb1>> of the texel decoded after k texels
TexelSamples(fmt, pa, k, pal0, pal1, junk) ==
  IF fmt = "ARGB1555"
  THEN LET p == SrcPos(fmt, k)
           v == SrcByte(pa, p.ptr + 1) * 256 + SrcByte(pa, p.ptr)
       IN <<v, v>>
  ELSE LET raw == TexelRaw(fmt, pa, k)
       IN IF raw = 0 THEN <<Transp, Transp>>
          ELSE <<PalSample(pal0, raw, junk[1]),
                 PalSample(pal1, raw, junk[2])>>

\* WriteCell storing the samples whether solid or not
WriteCell_Opaque(cell, s) == s

\* the two conditional stores into dst[dy * dst_stride + dx]
WriteCell(cell, s) ==
  <<IF Solid(s[1]) THEN s[1] ELSE cell[1],
    IF Solid(s[2]) THEN s[2] ELSE cell[2]>>

\* whether the raster blitted at (dst_x, dst_y) has a texel for the cell
\* (x, WinRow)
Covers(w, h, dst_x, dst_y, x) ==
  /\ x - dst_x >= 0 /\ x - dst_x < w
  /\ WinRow - dst_y >= 0 /\ WinRow - dst_y < h

\* vt_blit on the kept cells dst of a layer: b holds the arguments
\* src_width w, src_height h, the buffer address pa, dst_x, dst_y, fmt, pal0
\* and pal1; junk[x] is what the unassigned samples hold at cell x.  Texels
\* for other cells change no kept cell.
vt_blit(b, dst, junk) ==
  [x \in Win |->
     IF Covers(b.w, b.h, b.dst_x, b.dst_y, x) /\ InLayer(x, WinRow)
     THEN LET n == (WinRow - b.dst_y) * b.w + (x - b.dst_x)
              k == TexelsBefore(b.w, b.dst_x, b.dst_y, n)
          IN WriteCell(dst[x],
                       TexelSamples(b.fmt, b.pa, k, b.pal0, b.pal1, junk[x]))
     ELSE dst[x]]

\* the kept cells of layer l a blit has a texel for, with its arguments
BlitHits(l, b) ==
  {[layer |-> l, b |-> b, x |-> x] :
     x \in {x \in Win : Covers(b.w, b.h, b.dst_x, b.dst_y, x)}}

\* values an unassigned sample may hold
JunkSamples == {Transp, 21140}
Junk == [Win -> JunkSamples \X JunkSamples]

(***************************************************************************)
(* Sprite renderer: render_sprites                                         *)
(***************************************************************************)
NumSprites == 240
reg_sp_seg_lsb == 26
reg_sp_seg_msb == 27

\* vector of sprite entry idx
SpriteVector(idx) ==
  LowBits(Rd(spram, 8 * idx + 1), 4) * 256 + Rd(spram, 8 * idx)

\* one iteration of the loop of render_sprites for entry idx: the layer and
\* the arguments of the blit
SpriteEntry(idx) ==
  LET ctrl == Rd(ppu_regs_shadow, reg_sp_ctrl)
      spalsel == get_bit(ctrl, 3)
      sp_size == LowBits(ctrl, 2)
      sp_width == IF sp_size \in {2, 3} THEN 16 ELSE 8
      sp_height == IF sp_size \in {1, 3} THEN 16 ELSE 8
      sp_seg == LowBits(Rd(ppu_regs_shadow, reg_sp_seg_msb), 4) * 256
                + Rd(ppu_regs_shadow, reg_sp_seg_lsb)
      d1 == Rd(spram, 8 * idx + 1)
      d2 == Rd(spram, 8 * idx + 2)
      d3 == Rd(spram, 8 * idx + 3)
      d4 == Rd(spram, 8 * idx + 4)
      d5 == Rd(spram, 8 * idx + 5)
      vector == SpriteVector(idx)
      palette == LowBits(Shr(d1, 4), 4)
      psel == get_bit(d5, 1)
  IN [layer |-> LowBits(Shr(d3, 3), 2),
      b |-> [w |-> sp_width, h |-> sp_height,
             pa |-> get_char_data(sp_seg, vector, sp_width, sp_height,
                                  "IDX_16", FALSE),
             dst_x |-> IF get_bit(d3, 0) THEN d2 - 256 ELSE d2,
             dst_y |-> IF get_bit(d5, 0) THEN d4 - 256 ELSE d4,
             fmt |-> "IDX_16",
             pal0 |-> IF spalsel \/ ~psel THEN pal0_base + 32 * palette
                      ELSE NoPal,
             pal1 |-> IF spalsel \/ psel THEN pal1_base + 32 * palette
                      ELSE NoPal]]

\* LoopIdx counting up
LoopIdx_Up(n) == n

\* idx in iteration n (0, 1, ...) of "for (int idx = 239; idx >= 0; idx--)"
LoopIdx(n) == NumSprites - 1 - n

\* the first iteration from n on whose entry has a vector other than 0 (the
\* others are skipped), or NumSprites when the loop ends
SpriteNext(n) ==
  LET S == {m \in n .. (NumSprites - 1) : SpriteVector(LoopIdx(m)) # 0}
  IN IF S = {} THEN NumSprites ELSE CHOOSE m \in S : \A k \in S : m <= k

(***************************************************************************)
(* Background renderer: get_tile_addr, render_background                   *)
(***************************************************************************)
reg_bkg_x(idx) == IF idx = 0 THEN 16 ELSE 20
reg_bkg_y(idx) == IF idx = 0 THEN 17 ELSE 21
reg_bkg_ctrl1(idx) == IF idx = 0 THEN 18 ELSE 22
\* reg_bkg_ctrl2[idx]
reg_bkg_ctrl2(idx) == IF idx = 0 THEN reg_bkg_ctrl2_0 ELSE reg_bkg_ctrl2_1
reg_bkg_pal_sel == 15
reg_bkg_seg_lsb(idx) == IF idx = 0 THEN 28 ELSE 30
reg_bkg_seg_msb(idx) == IF idx = 0 THEN 29 ELSE 31

SCROLL_FIX == 0
SCROLL_H == 1
SCROLL_V == 2
SCROLL_4P == 3

\* TileAsserts without the assertion of the size-8 four-page case
TileAsserts_None(size, bmp, layer, scrl) == FALSE

\* whether get_tile_addr reaches one of its assertions
TileAsserts(size, bmp, layer, scrl) ==
  IF size = 8 THEN scrl = SCROLL_4P
  ELSE IF size = 16 THEN FALSE
  ELSE IF bmp THEN layer # 0
  ELSE TRUE

\* pair<uint16_t, bool> get_tile_addr(...): the address and whether the tile
\* is mapped
get_tile_addr(tx, ty, y8, x8, size, bmp, layer, scrl) ==
  LET bit(c) == IF c THEN 1 ELSE 0
  IN IF size = 8
     THEN LET offset == ((tx % 32) + 32 * (ty % 32)) * 2
          IN CASE scrl = SCROLL_FIX ->
                    [addr |-> (IF ~y8 /\ ~x8 THEN 0 ELSE 2048) + offset,
                     mapped |-> tx < 32 /\ ty < 32]
               [] scrl = SCROLL_H ->
                    [addr |-> (IF (tx > 32) # x8 THEN 2048 ELSE 0) + offset,
                     mapped |-> ty < 32]
               [] scrl = SCROLL_V ->
                    [addr |-> (IF (ty > 32) # y8 THEN 2048 ELSE 0) + offset,
                     mapped |-> tx < 32]
               [] OTHER -> [addr |-> offset, mapped |-> FALSE]
     ELSE IF size = 16
     THEN LET offset == ((tx % 16) + 16 * (ty % 16)) * 2
          IN CASE scrl = SCROLL_FIX ->
                    [addr |-> layer * 2048 + bit(y8) * 1024 + bit(x8) * 512
                              + offset,
                     mapped |-> tx < 16 /\ ty < 16]
               [] scrl = SCROLL_H ->
                    [addr |-> (IF (tx > 16) # x8 THEN 512 ELSE 0)
                              + layer * 2048 + offset,
                     mapped |-> ty < 16]
               [] scrl = SCROLL_V ->
                    [addr |-> (IF (ty > 16) # y8 THEN 512 ELSE 0)
                              + layer * 2048 + offset,
                     mapped |-> tx < 16]
               [] OTHER ->
                    [addr |-> (IF (tx > 16) # x8 THEN 512 ELSE 0)
                              + (IF (ty > 16) # y8 THEN 1024 ELSE 0)
                              + layer * 2048 + offset,
                     mapped |-> TRUE]
     ELSE LET offset == (ty % 256) * 2
          IN CASE scrl = SCROLL_FIX ->
                    [addr |-> layer * 2048 + bit(y8) * 1024 + bit(x8) * 512
                              + offset,
                     mapped |-> tx < 1 /\ ty < 256]
               [] scrl = SCROLL_H ->
                    [addr |-> (IF (tx > 1) # x8 THEN 512 ELSE 0) + offset,
                     mapped |-> ty < 256]
               [] scrl = SCROLL_V ->
                    [addr |-> (IF (ty > 256) # y8 THEN 512 ELSE 0) + offset,
                     mapped |-> tx < 1]
               [] OTHER ->
                    [addr |-> (IF (tx > 1) # x8 THEN 512 ELSE 0)
                              + (IF (ty > 256) # y8 THEN 1024 ELSE 0) + offset,
                     mapped |-> TRUE]

\* the values render_background(idx) derives from the shadow before its
\* loops
BkgSetup(idx) ==
  LET c1 == Rd(ppu_regs_shadow, reg_bkg_ctrl1(idx))
      c2 == Rd(ppu_regs_shadow, reg_bkg_ctrl2(idx))
      ps == Rd(ppu_regs_shadow, reg_bkg_pal_sel)
      hclr == idx = 0 /\ get_bit(c1, 4)
      bkx_clr == LowBits(Shr(c2, 2), 2)
      x8 == get_bit(c1, 0)
      y8 == get_bit(c1, 1)
      bmp == idx = 0 /\ get_bit(c2, 1)
      scrl == LowBits(Shr(c1, 2), 2)
      bkx_size == get_bit(c2, 0)
  IN [en |-> get_bit(c2, 7),
      bkx_pal |-> get_bit(c2, 6),
      c2_54 |-> LowBits(Shr(c2, 4), 2),
      fmt |-> IF hclr THEN "ARGB1555"
              ELSE CASE bkx_clr = 0 -> "IDX_4"
                     [] bkx_clr = 1 -> "IDX_16"
                     [] bkx_clr = 2 -> "IDX_64"
                     [] OTHER -> "IDX_256",
      x8 |-> x8,
      y8 |-> y8,
      render_pal0 |-> get_bit(ps, 2 * idx),
      render_pal1 |-> get_bit(ps, 1 + 2 * idx),
      xoff |-> Rd(ppu_regs_shadow, reg_bkg_x(idx)) - (IF x8 THEN 256 ELSE 0),
      yoff |-> Rd(ppu_regs_shadow, reg_bkg_y(idx)) - (IF y8 THEN 256 ELSE 0),
      bmp |-> bmp,
      scrl |-> scrl,
      tile_height |-> IF bmp THEN 1 ELSE IF bkx_size THEN 16 ELSE 8,
      tile_width |-> IF bmp THEN 256 ELSE IF bkx_size THEN 16 ELSE 8,
      y0 |-> IF scrl \in {SCROLL_V, SCROLL_4P} /\ ~bmp THEN -256 ELSE 0,
      x0 |-> IF scrl \in {SCROLL_H, SCROLL_4P} /\ ~bmp THEN -256 ELSE 0,
      seg |-> LowBits(Rd(ppu_regs_shadow, reg_bkg_seg_msb(idx)), 4) * 256
              + Rd(ppu_regs_shadow, reg_bkg_seg_lsb(idx))]

\* one iteration of the loops of render_background(idx) at (x, y): whether
\* a tile is drawn, the layer and the arguments of the blit
BkgTile(idx, s, x, y) ==
  LET tx == (x - s.x0) \div s.tile_width
      ty == (y - s.y0) \div s.tile_height
      tile_d == get_tile_addr(tx, ty, s.y8, s.x8, s.tile_width, s.bmp, idx,
                              s.scrl)
      cell == Rd(vram, tile_d.addr + 1) * 256 + Rd(vram, tile_d.addr)
      vector == LowBits(cell, 12)
      cell_pal_bk == LowBits(Shr(cell, 12), 4)
      depth == IF s.bkx_pal THEN s.c2_54 ELSE LowBits(cell_pal_bk, 2)
      pal_bank ==
        IF s.fmt = "IDX_16"
        THEN (IF s.bkx_pal THEN cell_pal_bk
              ELSE BitOr(s.c2_54, Shr(cell_pal_bk, 2)))
        ELSE IF s.fmt = "IDX_64" THEN Shr(cell_pal_bk, 2) ELSE 0
      palette_offset ==
        IF s.fmt = "IDX_16" THEN pal_bank * 32
        ELSE IF s.fmt = "IDX_64" THEN pal_bank * 128 ELSE 0
  IN [draw |-> tile_d.mapped /\ vector # 0,
      layer |-> LowBits(depth, 2),
      b |-> [w |-> s.tile_width, h |-> s.tile_height,
             pa |-> get_char_data(s.seg, vector, s.tile_width, s.tile_height,
                                  s.fmt, s.bmp),
             dst_x |-> x + s.xoff,
             dst_y |-> y + s.yoff,
             fmt |-> s.fmt,
             pal0 |-> IF s.render_pal0 THEN pal0_base + palette_offset
                      ELSE NoPal,
             pal1 |-> IF s.render_pal1 THEN pal1_base + palette_offset
                      ELSE NoPal]]

\* the iterations of the loops whose blit has a texel for a kept cell, and
\* that draw: the tiles of the grid do not overlap, so at most one per cell
BkgTiles(idx, s) ==
  LET ys == {y \in s.y0 .. 255 :
               /\ (y - s.y0) % s.tile_height = 0
               /\ WinRow - (y + s.yoff) >= 0
               /\ WinRow - (y + s.yoff) < s.tile_height}
      xs == {x \in s.x0 .. 255 :
               /\ (x - s.x0) % s.tile_width = 0
               /\ \E px \in Win : /\ px - (x + s.xoff) >= 0
                                  /\ px - (x + s.xoff) < s.tile_width}
  IN {t \in {BkgTile(idx, s, x, y) : x \in xs, y \in ys} : t.draw}

\* the blits of the tiles ts in the order of the loops (they are in one
\* row of the grid: by ascending x)
RECURSIVE BlitTiles(_, _, _)
BlitTiles(ls, ts, junk) ==
  IF ts = {} THEN ls
  ELSE LET t == CHOOSE t \in ts : \A u \in ts : t.b.dst_x <= u.b.dst_x
       IN BlitTiles([ls EXCEPT ![t.layer] = vt_blit(t.b, @, junk)],
                    ts \ {t}, junk)

(***************************************************************************)
(* VRAM indices the renderer reads                                         *)
(***************************************************************************)
\* PalIndex for palette entries four bytes wide
PalIndex_Wide(pal, raw) == {pal + 4 * raw, pal + 4 * raw + 1}

\* the indices of pal[2 * raw] and pal[2 * raw + 1], pal being at vram + pal
PalIndex(pal, raw) == {pal + 2 * raw, pal + 2 * raw + 1}

\* the palette reads of vt_blit with the arguments b: every texel of the
\* raster is decoded, and one with a non-zero index reads its entry in each
\* palette supplied
PalReads(b) ==
  IF b.fmt = "ARGB1555" THEN {}
  ELSE LET raws == {TexelRaw(b.fmt, b.pa, k) : k \in 0 .. (b.w * b.h - 1)}
                     \ {0}
       IN UNION {(IF b.pal0 # NoPal
                  THEN {[kind |-> "pal0", at |-> a] :
                          a \in PalIndex(b.pal0, raw)}
                  ELSE {})
                 \cup
                 (IF b.pal1 # NoPal
                  THEN {[kind |-> "pal1", at |-> a] :
                          a \in PalIndex(b.pal1, raw)}
                  ELSE {}) : raw \in raws}

\* the iterations <<x, y>> of the loops of render_background
BkgIters(s) ==
  {<<x, y>> : x \in {x \in s.x0 .. 255 : (x - s.x0) % s.tile_width = 0},
              y \in {y \in s.y0 .. 255 : (y - s.y0) % s.tile_height = 0}}

\* the tiles of the iterations that pass "if (!tile_mapped) continue": the
\* tile indices and the address get_tile_addr returned
MappedTiles(idx, s) ==
  {m \in {LET tx == (it[1] - s.x0) \div s.tile_width
              ty == (it[2] - s.y0) \div s.tile_height
              tile_d == get_tile_addr(tx, ty, s.y8, s.x8, s.tile_width,
                                      s.bmp, idx, s.scrl)
          IN [x |-> it[1], y |-> it[2], tx |-> tx, ty |-> ty,
              addr |-> tile_d.addr, mapped |-> tile_d.mapped] :
            it \in BkgIters(s)} : m.mapped}

\* the reads of render_background(idx): the two bytes of the cell of every
\* mapped tile, and the palette reads of the blit of every tile drawn
BkgReads(idx, s) ==
  LET ms == MappedTiles(idx, s)
      drawn == {m \in ms :
                  LowBits(Rd(vram, m.addr + 1) * 256 + Rd(vram, m.addr), 12)
                    # 0}
  IN {[kind |-> "map", at |-> a] :
        a \in UNION {{m.addr, m.addr + 1} : m \in ms}}
     \cup UNION {PalReads(BkgTile(idx, s, m.x, m.y).b) : m \in drawn}

\* the VRAM reads of the step the worker takes next: of render_background
\* unless it returns at once or stops in an assertion, or of the blit of
\* the next sprite entry
StepReads ==
  IF wpc \in {"bg1", "bg0"}
  THEN LET idx == IF wpc = "bg1" THEN 1 ELSE 0
           s == BkgSetup(idx)
       IN IF s.en /\ ~TileAsserts(s.tile_width, s.bmp, idx, s.scrl)
          THEN BkgReads(idx, s)
          ELSE {}
  ELSE IF /\ wpc = "sprites"
          /\ get_bit(Rd(ppu_regs_shadow, reg_sp_ctrl), 2)
          /\ SpriteNext(sp_i) < NumSprites
  THEN PalReads(SpriteEntry(LoopIdx(SpriteNext(sp_i))).b)
  ELSE {}

(***************************************************************************)
(* Render worker: ppu_render_thread, do_render                             *)
(***************************************************************************)
\* the positions of the worker inside do_render
PassPcs == {"r_lock", "copy", "r_unlock", "clear", "bg1", "bg0", "sprites",
            "merge", "r_end"}

\* RenderAllowed without the test of the flag
RenderAllowed_Always(kill) == TRUE

\* "if (!kill_renderer)" before do_render
RenderAllowed(kill) == ~kill

wrk_rest == <<copy_i, merge_i, sp_i, ppu_regs_shadow, regs_mutex, render_done,
              layers, obuf>>

\* while (!kill_renderer)
WLoop ==
  /\ wpc = "loop"
  /\ wpc' = IF kill_renderer THEN "done" ELSE "lock"
  /\ UNCHANGED <<mem, cpu, sync, wrk_rest, ppc, ghost>>

\* unique_lock lk(do_render_m), and the lock taken again inside wait()
WLock ==
  /\ wpc \in {"lock", "woken"}
  /\ do_render_m = "free"
  /\ do_render_m' = "render"
  /\ wpc' = "wait"
  /\ UNCHANGED <<mem, cpu, render_ready, kill_renderer, wrk_rest, ppc, ghost>>

\* do_render_cv.wait(lk, [] { return render_ready; }): the predicate is
\* tested with the lock held; when false the lock is released and the
\* worker blocks
WWait ==
  /\ wpc = "wait"
  /\ IF render_ready
     THEN wpc' = "consume" /\ UNCHANGED do_render_m
     ELSE wpc' = "asleep" /\ do_render_m' = "free"
  /\ UNCHANGED <<mem, cpu, render_ready, kill_renderer, wrk_rest, ppc, ghost>>

\* a condition variable may wake its waiter without a notification
WSpurious ==
  /\ wpc = "asleep"
  /\ wpc' = "woken"
  /\ UNCHANGED <<mem, cpu, sync, wrk_rest, ppc, ghost>>

\* render_ready = false
WConsume ==
  /\ wpc = "consume"
  /\ render_ready' = FALSE
  /\ wpc' = "chk"
  /\ UNCHANGED <<mem, cpu, kill_renderer, do_render_m, wrk_rest, ppc, ghost>>

\* WBegin without the store of false at the head of do_render
WBegin_KeepDone ==
  /\ wpc = "chk"
  /\ IF RenderAllowed(kill_renderer)
     THEN /\ wpc' = "r_lock"
          /\ g_passes' = g_passes + 1
     ELSE /\ wpc' = "unlock"
          /\ UNCHANGED g_passes
  /\ UNCHANGED <<mem, cpu, sync, copy_i, merge_i, sp_i, ppu_regs_shadow,
                 regs_mutex, render_done,
                 layers, obuf, ppc, g_call, g_win, g_ops, g_calls, g_wraps,
                 g_signals, g_snaps, g_blit, g_vlast>>

\* if (!kill_renderer) do_render(); do_render begins: render_done = false
WBegin ==
  /\ wpc = "chk"
  /\ IF RenderAllowed(kill_renderer)
     THEN /\ render_done' = FALSE
          /\ wpc' = "r_lock"
          /\ g_passes' = g_passes + 1
     ELSE /\ wpc' = "unlock"
          /\ UNCHANGED <<render_done, g_passes>>
  /\ UNCHANGED <<mem, cpu, sync, copy_i, merge_i, sp_i, ppu_regs_shadow,
                 regs_mutex,
                 layers, obuf, ppc, g_call, g_win, g_ops, g_calls, g_wraps,
                 g_signals, g_snaps, g_blit, g_vlast>>

\* lock_guard<std::mutex> guard(regs_mutex)
WRegsLock ==
  /\ wpc = "r_lock"
  /\ regs_mutex = "free"
  /\ regs_mutex' = "render"
  /\ copy_i' = 0
  /\ wpc' = "copy"
  /\ UNCHANGED <<mem, cpu, sync, merge_i, sp_i, ppu_regs_shadow, render_done, layers,
                 obuf, ppc, ghost>>

\* copy(ppu_regs, ppu_regs + 256, ppu_regs_shadow): one byte
WCopy ==
  /\ wpc = "copy"
  /\ copy_i < NumRegs
  /\ ppu_regs_shadow' = Wr(ppu_regs_shadow, copy_i, Rd(ppu_regs, copy_i))
  /\ copy_i' = copy_i + 1
  /\ wpc' = IF copy_i' = NumRegs THEN "r_unlock" ELSE "copy"
  /\ UNCHANGED <<mem, cpu, sync, merge_i, sp_i, regs_mutex, render_done, layers,
                 obuf, ppc, ghost>>

\* the guard goes out of scope
WRegsUnlock ==
  /\ wpc = "r_unlock"
  /\ regs_mutex' = "free"
  /\ wpc' = "clear"
  /\ UNCHANGED <<mem, cpu, sync, copy_i, merge_i, sp_i, ppu_regs_shadow,
                 render_done,
                 layers, obuf, ppc, ghost>>

\* clear_layer leaving the cells as they are
clear_layer_Keep(cells) == cells

\* clear_layer(ptr, w, h) on the kept cells of one layer
clear_layer(cells) == [x \in DOMAIN cells |-> ClearCell]

\* clear_layers()
WClear ==
  /\ wpc = "clear"
  /\ layers' = [l \in 0 .. 3 |-> clear_layer(layers[l])]
  /\ wpc' = "bg1"
  /\ UNCHANGED <<mem, cpu, sync, copy_i, merge_i, sp_i, ppu_regs_shadow,
                 regs_mutex,
                 render_done, obuf, ppc, ghost>>

\* render_background(idx): nothing is drawn when bit 7 of ctrl2 is clear in
\* the shadow; the first call of get_tile_addr may end the process in an
\* assertion; otherwise the mapped tiles with a vector are blitted
WBackground ==
  /\ wpc \in {"bg1", "bg0"}
  /\ \E idx \in {IF wpc = "bg1" THEN 1 ELSE 0} :
     \E s \in {BkgSetup(idx)} :
     LET next == IF wpc = "bg1" THEN "bg0" ELSE "sprites"
     IN IF ~s.en
        THEN /\ wpc' = next
             /\ g_blit' = {}
             /\ UNCHANGED layers
        ELSE IF TileAsserts(s.tile_width, s.bmp, idx, s.scrl)
        THEN /\ wpc' = "aborted"
             /\ g_blit' = {}
             /\ UNCHANGED layers
        ELSE \E ts \in {BkgTiles(idx, s)} :
             /\ wpc' = next
             /\ g_blit' = UNION {BlitHits(t.layer, t.b) : t \in ts}
             /\ \E junk \in Junk : layers' = BlitTiles(layers, ts, junk)
  /\ UNCHANGED <<mem, cpu, sync, copy_i, merge_i, sp_i, ppu_regs_shadow,
                 regs_mutex, render_done, obuf, ppc, g_call, g_win, g_ops,
                 g_calls, g_wraps, g_signals, g_passes, g_snaps, g_vlast>>

\* render_sprites(): nothing is drawn when bit 2 of reg_sp_ctrl is clear in
\* the shadow; otherwise one step per entry that is blitted, the entries
\* with vector 0 before it being skipped in the same step
WSprites ==
  /\ wpc = "sprites"
  /\ \E n \in {SpriteNext(sp_i)} :
     LET sp_en == get_bit(Rd(ppu_regs_shadow, reg_sp_ctrl), 2)
     IN IF ~sp_en \/ n = NumSprites
        THEN /\ wpc' = "merge"
             /\ merge_i' = 0
             /\ sp_i' = 0
             /\ g_blit' = {}
             /\ UNCHANGED layers
        ELSE \E e \in {SpriteEntry(LoopIdx(n))} :
             /\ wpc' = "sprites"
             /\ sp_i' = n + 1
             /\ g_blit' = BlitHits(e.layer, e.b)
             /\ \E junk \in Junk :
                  layers' = [layers EXCEPT ![e.layer] = vt_blit(e.b, @, junk)]
             /\ UNCHANGED merge_i
  /\ UNCHANGED <<mem, cpu, sync, copy_i, ppu_regs_shadow, regs_mutex,
                 render_done, obuf, ppc, g_call, g_win, g_ops, g_calls,
                 g_wraps, g_signals, g_passes, g_snaps, g_vlast>>

\* WMerge reading register 0x0E from the live register file
WMerge_Live ==
  /\ wpc = "merge"
  /\ merge_i < WinW
  /\ obuf' = [obuf EXCEPT ![merge_i] =
                MergePixel(Rd(ppu_regs, reg_pal_sel),
                           [l \in 0 .. 3 |-> layers[l][merge_i]])]
  /\ merge_i' = merge_i + 1
  /\ wpc' = IF merge_i' = WinW THEN "r_end" ELSE "merge"
  /\ UNCHANGED <<mem, cpu, sync, copy_i, sp_i, ppu_regs_shadow, regs_mutex,
                 render_done, layers, ppc, ghost>>

\* merge_layers(false): one output pixel
WMerge ==
  /\ wpc = "merge"
  /\ merge_i < WinW
  /\ obuf' = [obuf EXCEPT ![merge_i] =
                MergePixel(Rd(ppu_regs_shadow, reg_pal_sel),
                           [l \in 0 .. 3 |-> layers[l][merge_i]])]
  /\ merge_i' = merge_i + 1
  /\ wpc' = IF merge_i' = WinW THEN "r_end" ELSE "merge"
  /\ UNCHANGED <<mem, cpu, sync, copy_i, sp_i, ppu_regs_shadow, regs_mutex,
                 render_done, layers, ppc, ghost>>

\* render_done = true
WEnd ==
  /\ wpc = "r_end"
  /\ render_done' = TRUE
  /\ wpc' = "unlock"
  /\ UNCHANGED <<mem, cpu, sync, copy_i, merge_i, sp_i, ppu_regs_shadow,
                 regs_mutex,
                 layers, obuf, ppc, ghost>>

\* lk.unlock()
WUnlock ==
  /\ wpc = "unlock"
  /\ do_render_m' = "free"
  /\ wpc' = "loop"
  /\ UNCHANGED <<mem, cpu, render_ready, kill_renderer, wrk_rest, ppc, ghost>>

(***************************************************************************)
(* Presenter: reads the output buffer after ppu_is_render_done()           *)
(***************************************************************************)
\* bool ppu_is_render_done()
ppu_is_render_done == render_done

\* the presenter polls the completion flag
PCheck ==
  /\ ppc = "idle"
  /\ ppu_is_render_done
  /\ ppc' = "checked"
  /\ UNCHANGED <<mem, cpu, sync, wrk, ghost>>

\* the presenter takes get_render_buffer() and starts reading it
PBegin ==
  /\ ppc = "checked"
  /\ ppc' = "reading"
  /\ UNCHANGED <<mem, cpu, sync, wrk, ghost>>

\* the presenter has read the last pixel
PEnd ==
  /\ ppc = "reading"
  /\ ppc' = "idle"
  /\ UNCHANGED <<mem, cpu, sync, wrk, ghost>>

(***************************************************************************)
(* Initial states                                                          *)
(***************************************************************************)
\* values the uninitialised layer and output buffers of ppu_init may hold
InitCells == {ClearCell, <<31, 31744>>}
InitPixels == {<<0, 0, 0, 0>>, <<255, 255, 255, 255>>}

\* the state ppu_init leaves, for the register file regs
InitWith(regs) ==
  /\ ppu_regs = regs
  /\ ppu_regs_shadow = Zeroes
  /\ vram = Zeroes
  /\ spram = Zeroes
  /\ rom = NoRom
  /\ layers \in {[l \in 0 .. 3 |-> [x \in Win |-> c]] : c \in InitCells}
  /\ obuf \in {[x \in Win |-> o] : o \in InitPixels}
  /\ ticks = 0
  /\ render_ready = FALSE
  /\ kill_renderer = FALSE
  /\ render_done = FALSE
  /\ do_render_m = "free"
  /\ regs_mutex = "free"
  /\ cpu_pc = "idle"
  /\ cpu_tmp = 0
  /\ ret = 0
  /\ wpc = "loop"
  /\ copy_i = 0
  /\ merge_i = 0
  /\ sp_i = 0
  /\ ppc = "idle"
  /\ g_call = [op |-> "none", addr |-> 0, data |-> 0, pre |-> 0]
  /\ g_win = [A |-> VramAddr(regs), data |-> <<>>]
  /\ g_ops = 0
  /\ g_calls = 0
  /\ g_wraps = 0
  /\ g_signals = 0
  /\ g_passes = 0
  /\ g_snaps = {regs}
  /\ g_blit = {}
  /\ g_vlast = Zeroes

Init == InitWith(Zeroes)

(***************************************************************************)
(* Register port alone: the CPU context reads and writes, no rendering     *)
(***************************************************************************)
\* window registers established by earlier plain writes
PortRegs ==
  {Wr(Wr(Wr(Wr(Zeroes, reg_spram_addr_msb, sm), reg_spram_addr_lsb, sl),
         reg_vram_addr_msb, vm), reg_vram_addr_lsb, vl) :
     sm \in {0, 255}, sl \in {5, 6, 253, 255}, vm \in {0, 31},
     vl \in {0, 255}}

PortWrites ==
  {<<4, 171>>, <<7, 171>>, <<7, 0>>, <<5, 255>>, <<5, 0>>, <<3, 6>>}
PortReads == {4, 7, 5}

InitPort == \E regs \in PortRegs : InitWith(regs)

PortWrite ==
  /\ g_ops < MaxOps
  /\ g_ops' = g_ops + 1
  /\ \E w \in PortWrites : ppu_write(w[1], w[2])

PortRead ==
  /\ g_ops < MaxOps
  /\ g_ops' = g_ops + 1
  /\ \E a \in PortReads : ppu_read(a)

NextPort == PortWrite \/ PortRead \/ WriteMsb \/ WriteLsb

SpecPort == InitPort /\ [][NextPort]_vars

\* C6: after N consecutive ppu_write(0x07, b) calls from the window start A,
\* byte k is at vram[(A + k) mod 8192], register 0x05 is (A + N) & 0xFF and
\* register 0x06 is ((A + N) >> 8) & 0x1F; nothing is stored outside VRAM
C6_VramAutoIncrement ==
  cpu_pc = "idle" =>
    LET A == g_win.A
        N == Len(g_win.data)
    IN /\ \A k \in 1 .. N : Rd(vram, (A + k - 1) % VramSize) = g_win.data[k]
       /\ Rd(ppu_regs, reg_vram_addr_lsb) = (A + N) % 256
       /\ Rd(ppu_regs, reg_vram_addr_msb) % 32 = ((A + N) \div 256) % 32
       /\ N >= 1 => Rd(ppu_regs, reg_vram_addr_msb) = ((A + N) \div 256) % 32
       /\ DOMAIN vram \subseteq 0 .. (VramSize - 1)

\* a write at 0x1FFF happened and the window wrapped to 0x0000
C6_Witness ==
  /\ cpu_pc = "idle"
  /\ g_win.A = 8191
  /\ Len(g_win.data) = 1
  /\ Rd(vram, 8191) = 171
  /\ Rd(ppu_regs, reg_vram_addr_lsb) = 0
  /\ Rd(ppu_regs, reg_vram_addr_msb) = 0

\* C7: after ppu_write(0x04, d) the byte is at the pre-increment address and
\* the SPRAM window is that address plus 1, rounded up to the next multiple
\* of 8 when its low 3 bits are 6 or 7, modulo 2048
C7_SpramSkip ==
  (cpu_pc = "idle" /\ g_call.op = "write" /\ g_call.addr = reg_spram_data) =>
    LET a == g_call.pre
        inc == a + 1
        w == SpramAddr(ppu_regs)
    IN /\ Rd(spram, a) = g_call.data
       /\ w % 8 \notin {6, 7}
       /\ w = (IF inc % 8 >= 6 THEN ((inc \div 8) + 1) * 8 ELSE inc) % SpramSize
       /\ Rd(ppu_regs, reg_spram_addr_msb) = w \div 256
       /\ Rd(ppu_regs, reg_spram_addr_lsb) = w % 256
       /\ DOMAIN spram \subseteq 0 .. (SpramSize - 1)

\* a write at 0x7FD: the incremented address 0x7FE is rounded up past the end
C7_Witness ==
  /\ cpu_pc = "idle"
  /\ g_call.op = "write"
  /\ g_call.addr = reg_spram_data
  /\ g_call.pre = 2045
  /\ Rd(spram, 2045) = 171
  /\ SpramAddr(ppu_regs) = 0

\* C15: ppu_read(0x07) returns the byte last written through the port at
\* the address the window stands at (0 where nothing was written), so
\* writing b at A, setting the window back to A and reading returns b;
\* ppu_read(0x07) and ppu_read(0x04) change no register, VRAM or SPRAM byte
\* and a repeated read returns the same value
C15_VramRoundTrip ==
  /\ []((cpu_pc = "idle" /\ g_call.op = "read"
           /\ g_call.addr = reg_vram_data)
          => ret = Rd(g_vlast, (g_win.A + Len(g_win.data)) % VramSize))
  /\ [][(g_ops' # g_ops /\ g_call'.op = "read"
           /\ g_call'.addr \in {reg_vram_data, reg_spram_data})
          => /\ UNCHANGED <<ppu_regs, vram, spram>>
             /\ (g_call.op = "read" /\ g_call.addr = g_call'.addr)
                  => ret' = ret]_vars

\* 0xAB was written at window address 0, the window was set back to 0 and
\* the read returned 0xAB
C15_Witness ==
  /\ cpu_pc = "idle"
  /\ g_call.op = "read"
  /\ g_call.addr = reg_vram_data
  /\ g_win = [A |-> 0, data |-> <<>>]
  /\ Rd(g_vlast, 0) = 171
  /\ ret = 171
  /\ VramAddr(ppu_regs) = 0

(***************************************************************************)
(* Frame clock alone: the CPU context ticks and reads the status register  *)
(***************************************************************************)
ClockRead == ppu_read(reg_ppu_stat) /\ UNCHANGED g_ops

ClockTick == ppu_tick

NextClock == ClockTick \/ ppu_tick_run \/ TickLock \/ TickSet \/ TickNotify \/ ClockRead

SpecClock == Init /\ [][NextClock]_vars

\* everything ppu.cpp keeps except the tick counter
ppu_state_but_ticks ==
  <<ppu_regs, ppu_regs_shadow, vram, spram, layers, obuf, render_ready,
    kill_renderer, render_done, do_render_m, regs_mutex>>

\* C8: the call of ppu_tick that resets ticks to 0 raises a VBLANK
\* interrupt-pending flag (which the next read of 0x01 clears): the first
\* wraparound changes some state of the PPU besides the tick counter
C8_WrapRaisesFlag ==
  [][(g_wraps = 0 /\ g_wraps' = 1) =>
       ppu_state_but_ticks' # ppu_state_but_ticks]_vars

\* C9: ticks stays in [0, v_total); c calls of ppu_tick from 0 leave
\* ticks = c mod v_total after c div v_total wraparounds and one frame-start
\* signal per passage through vblank_len; ppu_is_vblank and bit 7 of the
\* status read hold exactly for vblank_start <= ticks < vblank_len
C9_FrameClockPeriodic ==
  /\ ticks \in 0 .. (v_total - 1)
  /\ ticks = g_calls % v_total
  /\ g_wraps = g_calls \div v_total
  /\ g_signals + (IF cpu_pc \in {"tick_lock", "tick_set"} THEN 1 ELSE 0)
       = (g_calls + (v_total - vblank_len)) \div v_total
  /\ ppu_is_vblank <=> (g_calls % v_total \in vblank_start .. (vblank_len - 1))
  /\ (ReadValue(reg_ppu_stat) \div 128) % 2
       = (IF g_calls % v_total \in vblank_start .. (vblank_len - 1)
          THEN 1 ELSE 0)

\* exactly v_total calls were made: ticks is 0 again after one wraparound
\* and one signal
C9_Witness ==
  /\ g_calls = v_total
  /\ ticks = 0
  /\ g_wraps = 1
  /\ g_signals = 1
  /\ cpu_pc = "idle"

(***************************************************************************)
(* CPU context and render worker together                                  *)
(***************************************************************************)
\* the call of ppu_tick that takes a branch
FrameTick == ticks + 1 = NextBranch(ticks) /\ ppu_tick

CpuTicks == ppu_tick_run \/ FrameTick \/ TickLock \/ TickSet \/ TickNotify

\* the steps that finish a PPU call the CPU context is inside
CpuContinue == TickLock \/ TickSet \/ TickNotify \/ WriteMsb \/ WriteLsb

Worker ==
  \/ WLoop \/ WLock \/ WWait \/ WSpurious \/ WConsume \/ WBegin
  \/ WRegsLock \/ WCopy \/ WRegsUnlock \/ WClear \/ WBackground \/ WSprites
  \/ WMerge \/ WEnd \/ WUnlock

SnapWrites == {<<5, 255>>, <<7, 171>>}
SnapReads == {7, 1}

SnapWrite ==
  /\ g_ops < MaxOps
  /\ g_ops' = g_ops + 1
  /\ \E w \in SnapWrites : ppu_write(w[1], w[2])

SnapRead ==
  /\ g_ops < MaxOps
  /\ g_ops' = g_ops + 1
  /\ \E a \in SnapReads : ppu_read(a)

NextSnap == CpuTicks \/ SnapWrite \/ SnapRead \/ WriteMsb \/ WriteLsb \/ Worker

SpecSnap == Init /\ [][NextSnap]_vars

\* C1: the shadow a render pass uses is the register file as it stood at one
\* instant at or after the frame-start signal, between two CPU writes
C1_SnapshotConsistent == wpc = "r_unlock" => ppu_regs_shadow \in g_snaps

\* C3: inside a PPU call the CPU context can always take its next step
\* while a render pass is in progress
C3_CpuNeverWaits ==
  (cpu_pc # "idle" /\ wpc \in PassPcs) => ENABLED CpuContinue

(***************************************************************************)
(* Frame pump, render worker and presenter, without shutdown               *)
(***************************************************************************)
Presenter == PCheck \/ PBegin \/ PEnd

NextFrames == CpuTicks \/ Worker \/ Presenter

SpecFrames == Init /\ [][NextFrames]_vars

\* C2: one render pass per frame-start signal: never more passes than
\* signals, and once the worker has consumed the pending signal and started
\* the pass for it, every signal raised so far has had its own pass
C2_OnePassPerSignal ==
  /\ g_passes <= g_signals
  /\ (~render_ready /\ wpc \notin {"chk"}) => g_passes = g_signals

\* C5: the presenter, having seen ppu_is_render_done(), never reads the
\* output buffer while merge_layers is writing it
C5_NoTearing == ~(ppc = "reading" /\ wpc = "merge")

\* C20: while render_done is true the worker is not inside a pass: the
\* flag is false from the first step of do_render until the last output
\* pixel is written and before the first pass has completed, and no step
\* taken while it is true modifies the output buffer
C20_DoneOutsidePass ==
  /\ [](render_done => (wpc \notin PassPcs /\ wpc # "aborted"))
  /\ [](render_done => g_passes >= 1)
  /\ [][render_done => obuf' = obuf]_vars

\* the second pass has cleared the flag, written the output buffer, which
\* did not hold the blank frame at the start, and set the flag again
C20_Witness ==
  /\ render_done
  /\ g_passes = 2
  /\ wpc = "unlock"
  /\ \A x \in Win : obuf[x] = <<255, 0, 0, 0>>

(***************************************************************************)
(* Shutdown                                                                *)
(***************************************************************************)
CpuStop == ppu_stop \/ StopReady \/ StopKill \/ StopNotify

NextStop == CpuTicks \/ CpuStop \/ Worker

SpecStop == Init /\ [][NextStop]_vars

\* the steps of the worker that depend on no other context
WorkerRuns ==
  \/ WLoop \/ WWait \/ WConsume \/ WBegin \/ WRegsLock \/ WCopy
  \/ WRegsUnlock \/ WClear \/ WBackground \/ WSprites \/ WMerge \/ WEnd
  \/ WUnlock

\* fair scheduling: a context that can run does run, and a thread that keeps
\* asking for a mutex that is released again and again gets it
FairStop ==
  /\ SpecStop
  /\ WF_vars(WorkerRuns)
  /\ SF_vars(WLock)
  /\ WF_vars(TickSet \/ TickNotify \/ StopReady \/ StopKill \/ StopNotify)

\* C4: no render pass starts once kill_renderer is set, and from then on the
\* worker eventually leaves its loop
C4_StopTerminates ==
  /\ [][(wpc = "chk" /\ wpc' = "r_lock") => ~kill_renderer]_vars
  /\ (kill_renderer ~> (wpc = "done"))

\* the worker rendered a frame, was stopped and has left its loop
C4_Witness == kill_renderer /\ wpc = "done" /\ g_passes >= 1

(***************************************************************************)
(* Compositor alone: merge_layers applied to drawn layers                  *)
(***************************************************************************)
\* sample values of the two halves of a layer cell, and of register 0x0E
Half0Samples == {Transp, 31, 992}
Half1Samples == {Transp, 31744, 15855}
PalSelSamples == {0, 2, 8, 10, 18, 24, 26}

\* the worker about to merge: the pass for the first signal has copied the
\* registers and drawn the layers
InitMerge ==
  /\ \E ps \in PalSelSamples :
       /\ ppu_regs = Wr(Zeroes, reg_pal_sel, ps)
       /\ ppu_regs_shadow = ppu_regs
       /\ g_snaps = {ppu_regs}
  /\ vram = Zeroes
  /\ spram = Zeroes
  /\ rom = NoRom
  /\ \E stack \in [0 .. 3 -> Half0Samples \X Half1Samples] :
       layers = [l \in 0 .. 3 |-> [x \in Win |-> stack[l]]]
  /\ obuf \in {[x \in Win |-> o] : o \in InitPixels}
  /\ ticks = vblank_len
  /\ render_ready = FALSE
  /\ kill_renderer = FALSE
  /\ render_done = FALSE
  /\ do_render_m = "render"
  /\ regs_mutex = "free"
  /\ cpu_pc = "idle"
  /\ cpu_tmp = 0
  /\ ret = 0
  /\ wpc = "merge"
  /\ copy_i = NumRegs
  /\ merge_i = 0
  /\ sp_i = 0
  /\ ppc = "idle"
  /\ g_call = [op |-> "write", addr |-> reg_pal_sel,
               data |-> Rd(ppu_regs, reg_pal_sel), pre |-> 0]
  /\ g_win = [A |-> 0, data |-> <<>>]
  /\ g_ops = 1
  /\ g_calls = vblank_len
  /\ g_wraps = 0
  /\ g_signals = 1
  /\ g_passes = 1
  /\ g_blit = {}
  /\ g_vlast = Zeroes

NextMerge == WMerge \/ WEnd

SpecMerge == InitMerge /\ [][NextMerge]_vars

\* the sample of the lowest-index layer that is solid in the given bank
TopSolid(stack, bank) ==
  LET S == {l \in 0 .. 3 : Solid(stack[l][bank])}
  IN IF S = {} THEN Transp
     ELSE stack[CHOOSE l \in S : \A m \in S : l <= m][bank]

\* the per-channel average of two solid TRGB1555 samples
ChannelAvg(a, b) ==
  ((LowBits(a, 5) + LowBits(b, 5)) \div 2)
  + ((LowBits(Shr(a, 5), 5) + LowBits(Shr(b, 5), 5)) \div 2) * 32
  + ((LowBits(Shr(a, 10), 5) + LowBits(Shr(b, 10), 5)) \div 2) * 1024

\* C10: with bits 1, 3 and 4 of register 0x0E set, a pixel whose bank-0 and
\* bank-1 samples are both solid comes out as their per-channel average
C10_BlendBothSolid ==
  (wpc = "r_end" /\ get_bit(Rd(ppu_regs_shadow, reg_pal_sel), 1)
     /\ get_bit(Rd(ppu_regs_shadow, reg_pal_sel), 3)
     /\ get_bit(Rd(ppu_regs_shadow, reg_pal_sel), 4)) =>
    \A x \in Win :
      LET stack == [l \in 0 .. 3 |-> layers[l][x]]
          s0 == TopSolid(stack, 1)
          s1 == TopSolid(stack, 2)
      IN (Solid(s0) /\ Solid(s1)) =>
           obuf[x] = argb1555_to_rgb8888(ChannelAvg(s0, s1))

\* C12: for each palette bank the sample the compositor uses at a pixel is
\* that of the lowest-index layer whose half for the bank is solid there,
\* and 0x8000 only when the half is transparent in all four layers; with
\* only one bank routed to the output the pixel is that sample converted
C12_LowestLayerWins ==
  \A x \in Win :
    LET stack == [l \in 0 .. 3 |-> layers[l][x]]
        s0 == TopSolid(stack, 1)
        s1 == TopSolid(stack, 2)
        ps == Rd(ppu_regs_shadow, reg_pal_sel)
    IN /\ MergeFold(stack, 3, <<Transp, Transp>>) = <<s0, s1>>
       /\ ~Solid(s0) <=> \A l \in 0 .. 3 : ~Solid(stack[l][1])
       /\ ~Solid(s1) <=> \A l \in 0 .. 3 : ~Solid(stack[l][2])
       /\ (wpc = "r_end" /\ ps = 2) => obuf[x] = argb1555_to_rgb8888(s0)
       /\ (wpc = "r_end" /\ ps = 8) => obuf[x] = argb1555_to_rgb8888(s1)

\* bank 0 alone is routed to the output; layer 0 is transparent, layers 1
\* and 3 hold different solid samples: the pixel shows layer 1
C12_Witness ==
  /\ wpc = "r_end"
  /\ Rd(ppu_regs_shadow, reg_pal_sel) = 2
  /\ \E x \in Win :
       /\ layers[0][x][1] = Transp
       /\ layers[1][x][1] = 31
       /\ layers[3][x][1] = 992
       /\ layers[1][x][2] = Transp
       /\ layers[2][x][2] = 15855
       /\ layers[3][x][2] = 31744
       /\ obuf[x] = <<255, 255, 0, 0>>

(***************************************************************************)
(* One render pass alone: clear_layers, the renderers and merge_layers     *)
(* applied to a snapshot, with the CPU context idle                        *)
(***************************************************************************)
\* a register file, VRAM or SPRAM holding the bytes of the pairs
\* <<address, byte>> of a sequence
RECURSIVE Bytes(_)
Bytes(ws) ==
  IF ws = <<>> THEN Zeroes
  ELSE Wr(Bytes(SubSeq(ws, 1, Len(ws) - 1)), ws[Len(ws)][1], ws[Len(ws)][2])

\* the two bytes of a 16-bit word at address a
Word(a, v) == <<<<a, v % 256>>, <<a + 1, v \div 256>>>>

\* tile-map addresses that hold a cell in the sampled VRAMs
MapAddrs == <<0, 2, 512, 1024, 2048, 2560>>

\* the tile map: the cell c at every address of MapAddrs
RECURSIVE TileMap(_, _)
TileMap(c, n) ==
  IF n = 0 THEN <<>> ELSE TileMap(c, n - 1) \o Word(MapAddrs[n], c)

\* palettes: in both banks the entries 1 and 2 of palette 0 and the entry 1
\* of palette 1; a sample with bit 15 set is transparent
Palettes(e0, e1) ==
  Word(pal0_base + 2, e0) \o Word(pal1_base + 2, e1)
    \o Word(pal0_base + 4, 992) \o Word(pal1_base + 4, 15855)
    \o Word(pal0_base + 34, e1) \o Word(pal1_base + 34, e0)

\* sampled contents of VRAM and of the character ROM (every byte 0x21,
\* every byte 0x81, the byte at pa being 0x10 + pa)
Scenes ==
  {[v |-> Bytes(TileMap(20482, Len(MapAddrs)) \o Palettes(32799, 31744)),
    r |-> <<33, 0>>],
   [v |-> Bytes(TileMap(4097, Len(MapAddrs)) \o Palettes(31, 64512)),
    r |-> <<16, 1>>],
   [v |-> Bytes(TileMap(4097, Len(MapAddrs)) \o Palettes(31, 31744)),
    r |-> <<129, 0>>]}

\* the worker about to clear the layers: the pass for the first signal has
\* copied the register file regs; v, sp and r are VRAM, SPRAM and the ROM
InitPass(regs, v, sp, r, cells) ==
  /\ ppu_regs = regs
  /\ ppu_regs_shadow = regs
  /\ vram = v
  /\ spram = sp
  /\ rom = r
  /\ layers \in {[l \in 0 .. 3 |-> [x \in Win |-> c]] : c \in cells}
  /\ obuf = [x \in Win |-> <<0, 0, 0, 0>>]
  /\ ticks = vblank_len
  /\ render_ready = FALSE
  /\ kill_renderer = FALSE
  /\ render_done = FALSE
  /\ do_render_m = "render"
  /\ regs_mutex = "free"
  /\ cpu_pc = "idle"
  /\ cpu_tmp = 0
  /\ ret = 0
  /\ wpc = "clear"
  /\ copy_i = NumRegs
  /\ merge_i = 0
  /\ sp_i = 0
  /\ ppc = "idle"
  /\ g_call = [op |-> "none", addr |-> 0, data |-> 0, pre |-> 0]
  /\ g_win = [A |-> VramAddr(regs), data |-> <<>>]
  /\ g_ops = 0
  /\ g_calls = vblank_len
  /\ g_wraps = 0
  /\ g_signals = 1
  /\ g_passes = 1
  /\ g_snaps = {regs}
  /\ g_blit = {}
  /\ g_vlast = v

\* snapshots that enable background idx: control registers, palette select
\* and scroll offset
BkgRegs(idx) ==
  {Bytes(<<<<reg_bkg_ctrl2(idx), c2>>, <<reg_bkg_ctrl1(idx), c1>>,
           <<reg_bkg_pal_sel, ps>>, <<reg_bkg_x(idx), xo>>,
           <<reg_pal_sel, 10>>>>) :
     c2 \in {128 + 64 * p + 16 + 4 * clr + m :
               p \in {0, 1}, clr \in 0 .. 3, m \in {0, 1, 2}},
     c1 \in {16 * hc + 4 * sc : hc \in {0, 1}, sc \in 0 .. 3},
     ps \in {0, 1, 2, 3, 4, 8, 12},
     xo \in {0, 255}}

\* background 1 has no bitmap and no direct-colour mode
InitPassBkg ==
  \E idx \in {0, 1} : \E regs \in BkgRegs(idx), sc \in Scenes :
    /\ Rd(regs, reg_bkg_pal_sel) \in {0, 4 ^ idx, 2 * 4 ^ idx, 3 * 4 ^ idx}
    /\ idx = 1 => /\ ~get_bit(Rd(regs, reg_bkg_ctrl2(idx)), 1)
                  /\ ~get_bit(Rd(regs, reg_bkg_ctrl1(idx)), 4)
    /\ InitPass(regs, sc.v, Zeroes, sc.r, {<<31, 31744>>})

\* the eight bytes of sprite entry idx
SpriteBytes(idx, vector, palette, x, layer, y, psel) ==
  <<<<8 * idx, vector % 256>>,
    <<8 * idx + 1, 16 * palette + vector \div 256>>,
    <<8 * idx + 2, x % 256>>,
    <<8 * idx + 3, 8 * layer + (IF x < 0 THEN 1 ELSE 0)>>,
    <<8 * idx + 4, y % 256>>,
    <<8 * idx + 5, 2 * psel + (IF y < 0 THEN 1 ELSE 0)>>>>

\* sampled SPRAM contents: entry 0 alone, or with entry 3 or 239
SpriteSamples ==
  {Bytes(SpriteBytes(0, 1, p, x, l, y, ps)
           \o SpriteBytes(IF ps2 = 0 THEN 3 ELSE 239, v2, 1, 0, 0, 0, ps2)) :
     p \in {0, 1}, x \in {0, -3, -16}, l \in {0, 1}, y \in {0, -1},
     ps \in {0, 1}, v2 \in {0, 2}, ps2 \in {0, 1}}

\* snapshots that enable the sprites, alone or over background 0 drawn in
\* 16 colours on layer 0
SpriteRegs ==
  {Bytes(<<<<reg_sp_ctrl, 4 + 8 * spalsel + size>>, <<reg_pal_sel, 10>>,
           <<reg_bkg_ctrl2_0, c2>>, <<reg_bkg_pal_sel, 3>>>>) :
     spalsel \in {0, 1}, size \in {0, 2}, c2 \in {0, 128 + 64 + 4}}

InitPassSprites ==
  \E regs \in SpriteRegs, sp \in SpriteSamples, sc \in Scenes :
    InitPass(regs, sc.v, sp, sc.r, {<<31, 31744>>})

\* snapshots with every enable bit clear, over any of the sampled memories
BlankRegs ==
  {Bytes(<<<<reg_sp_ctrl, 3>>, <<reg_bkg_ctrl2_0, 127>>,
           <<reg_bkg_ctrl2_1, 5>>, <<reg_bkg_pal_sel, 15>>,
           <<reg_pal_sel, ps>>>>) : ps \in PalSelSamples}

InitPassBlank ==
  \E regs \in BlankRegs, sc \in Scenes :
    InitPass(regs, sc.v, Bytes(SpriteBytes(0, 1, 0, 0, 0, 0, 0)), sc.r,
             InitCells)

InitRender == InitPassBkg \/ InitPassSprites \/ InitPassBlank

NextPass == WClear \/ WBackground \/ WSprites \/ WMerge \/ WEnd

SpecPass == InitRender /\ [][NextPass]_vars

\* a step of the worker that ran render_background, or render_sprites for
\* one entry
DrawStep ==
  /\ wpc \in {"bg1", "bg0", "sprites"}
  /\ <<wpc, sp_i>>' # <<wpc, sp_i>>

\* the n bits at bit position pos of the little-endian bit stream at pa
StreamBits(pa, pos, n) ==
  LET p == pos \div 8
      word == RomByte(pa + p) + 256 * RomByte(pa + p + 1)
  IN (word \div (2 ^ (pos % 8))) % (2 ^ n)

\* the value of the texel of blit h.b that falls on cell h.x: the index,
\* or the sample in ARGB1555
HitTexel(h) ==
  LET n == (WinRow - h.b.dst_y) * h.b.w + (h.x - h.b.dst_x)
  IN StreamBits(h.b.pa, Bpp(h.b.fmt) * n, Bpp(h.b.fmt))

\* C11: a texel that is transparent in a bank leaves that bank's half of
\* the destination cell unchanged: index 0 of an indexed format and an
\* ARGB1555 texel with bit 15 set leave the whole cell unchanged, whatever
\* palettes are supplied; a palette entry with bit 15 set leaves its own
\* bank's half unchanged
C11_TransparentKeeps ==
  [][DrawStep =>
       \A h \in g_blit' :
         LET old == layers[h.layer][h.x]
             new == layers'[h.layer][h.x]
             t == HitTexel(h)
         IN IF h.b.fmt = "ARGB1555"
            THEN ~Solid(t) => new = old
            ELSE /\ t = 0 => new = old
                 /\ (t # 0 /\ h.b.pal0 # NoPal /\ ~Solid(PalEntry(h.b.pal0, t)))
                      => new[1] = old[1]
                 /\ (t # 0 /\ h.b.pal1 # NoPal /\ ~Solid(PalEntry(h.b.pal1, t)))
                      => new[2] = old[2]]_vars

\* a sprite texel with a non-zero index whose palette entry is transparent
\* in bank 0 and solid in bank 1 fell on a cell a background had drawn: the
\* cell keeps the background's bank-0 half and holds the sprite's bank-1
\* sample
C11_Witness ==
  /\ wpc = "sprites"
  /\ \E h \in g_blit :
       LET t == HitTexel(h)
       IN /\ h.b.fmt = "IDX_16"
          /\ t # 0
          /\ h.b.pal0 # NoPal
          /\ h.b.pal1 # NoPal
          /\ ~Solid(PalEntry(h.b.pal0, t))
          /\ Solid(PalEntry(h.b.pal1, t))
          /\ Solid(layers[h.layer][h.x][1])
          /\ layers[h.layer][h.x][2] = PalEntry(h.b.pal1, t)

\* the sprite entries render_sprites draws, and whether the raster of entry
\* i has a texel for cell x of the layer the entry targets
DrawnSprites == {i \in 0 .. (NumSprites - 1) : SpriteVector(i) # 0}
SpriteCovers(i, x) ==
  LET b == SpriteEntry(i).b IN Covers(b.w, b.h, b.dst_x, b.dst_y, x)

\* the sample sprite entry i produces for a bank (1 or 2) at cell x: the
\* palette entry of its texel there, transparent for index 0 and for a bank
\* whose palette the entry does not select
SpriteSample(i, x, bank) ==
  LET e == SpriteEntry(i)
      t == HitTexel([layer |-> e.layer, b |-> e.b, x |-> x])
      pal == IF bank = 1 THEN e.b.pal0 ELSE e.b.pal1
  IN IF t = 0 \/ pal = NoPal THEN Transp ELSE PalEntry(pal, t)

\* C13: when sprite entries i < j with non-zero vectors produce solid
\* samples for the same bank at the same cell of the same layer, the cell's
\* half for that bank holds entry i's sample after render_sprites, also
\* where a background had drawn: whenever entry i produces a solid sample
\* at a cell that no entry of lower index on the same layer covers, the
\* half holds that sample
C13_SpriteOrder ==
  (wpc = "merge" /\ get_bit(Rd(ppu_regs_shadow, reg_sp_ctrl), 2)) =>
    \A i \in DrawnSprites, x \in Win, bank \in {1, 2} :
      (/\ SpriteCovers(i, x)
       /\ Solid(SpriteSample(i, x, bank))
       /\ \A k \in DrawnSprites :
            (k < i /\ SpriteEntry(k).layer = SpriteEntry(i).layer)
              => ~SpriteCovers(k, x))
        => layers[SpriteEntry(i).layer][x][bank] = SpriteSample(i, x, bank)

\* entries 0 and j > 0 target layer 0, where background 0 was drawn, and
\* produce different solid bank-0 samples at the same cell: the cell holds
\* the sample of entry 0
C13_Witness ==
  /\ wpc = "merge"
  /\ get_bit(Rd(ppu_regs_shadow, reg_sp_ctrl), 2)
  /\ get_bit(Rd(ppu_regs_shadow, reg_bkg_ctrl2_0), 7)
  /\ \E j \in DrawnSprites \ {0}, x \in Win :
       /\ 0 \in DrawnSprites
       /\ SpriteEntry(0).layer = 0
       /\ SpriteEntry(j).layer = 0
       /\ SpriteCovers(0, x)
       /\ SpriteCovers(j, x)
       /\ Solid(SpriteSample(0, x, 1))
       /\ Solid(SpriteSample(j, x, 1))
       /\ SpriteSample(0, x, 1) # SpriteSample(j, x, 1)
       /\ BkgTiles(0, BkgSetup(0)) # {}
       /\ layers[0][x][1] = SpriteSample(0, x, 1)

\* C14: a pass whose snapshot has the two background enable bits and the
\* sprite enable bit clear leaves every output pixel 0xFF000000, whatever
\* VRAM, SPRAM and register 0x0E hold and whatever the layers held before
C14_BlankFrame ==
  (/\ wpc = "r_end"
   /\ ~get_bit(Rd(ppu_regs_shadow, reg_bkg_ctrl2_0), 7)
   /\ ~get_bit(Rd(ppu_regs_shadow, reg_bkg_ctrl2_1), 7)
   /\ ~get_bit(Rd(ppu_regs_shadow, reg_sp_ctrl), 2))
    => \A x \in Win : obuf[x] = <<255, 0, 0, 0>>

\* such a pass has merged, with both banks and the blend routed to the
\* output, over a VRAM with tile map and palettes and an SPRAM with a sprite
C14_Witness ==
  /\ wpc = "r_end"
  /\ ~get_bit(Rd(ppu_regs_shadow, reg_bkg_ctrl2_0), 7)
  /\ ~get_bit(Rd(ppu_regs_shadow, reg_bkg_ctrl2_1), 7)
  /\ ~get_bit(Rd(ppu_regs_shadow, reg_sp_ctrl), 2)
  /\ Rd(ppu_regs_shadow, reg_pal_sel) = 26
  /\ SpriteVector(0) # 0
  /\ Rd(vram, 0) # 0
  /\ \A x \in Win : obuf[x] = <<255, 0, 0, 0>>

\* C17: a blit given only one palette writes only that bank: with pal0
\* absent no texel of an indexed format changes the bank-0 half of a cell,
\* and with pal1 absent none changes the bank-1 half
C17_AbsentPaletteKeeps ==
  [][DrawStep =>
       \A h \in g_blit' :
         LET old == layers[h.layer][h.x]
             new == layers'[h.layer][h.x]
         IN h.b.fmt # "ARGB1555" =>
              /\ h.b.pal0 = NoPal => new[1] = old[1]
              /\ h.b.pal1 = NoPal => new[2] = old[2]]_vars

\* the number of texels before texel n of blit h.b that fall inside the
\* layer
TexelsBefore_Seen(h, n) ==
  Cardinality({m \in 0 .. (n - 1) :
                 InLayer(h.b.dst_x + (m % h.b.w), h.b.dst_y + (m \div h.b.w))})

\* whether half new of a cell is what the texel of value t leaves there in
\* the bank of palette pal, the half having been old before: an ARGB1555
\* sample or the palette entry if it has bit 15 clear, else old; with the
\* palette absent and a non-zero index the sample may be anything
TexelLeaves(fmt, pal, t, old, new) ==
  IF fmt = "ARGB1555" THEN new = (IF Solid(t) THEN t ELSE old)
  ELSE IF t = 0 THEN new = old
  ELSE IF pal # NoPal
  THEN new = (IF Solid(PalEntry(pal, t)) THEN PalEntry(pal, t) ELSE old)
  ELSE new = old \/ Solid(new)

AssertRegs ==
  {Bytes(<<<<reg_bkg_ctrl2_0, c20>>, <<reg_bkg_ctrl1(0), 4 * sc0>>,
           <<reg_bkg_ctrl2_1, c21>>, <<reg_bkg_ctrl1(1), 4 * sc1>>,
           <<reg_bkg_pal_sel, 15>>, <<reg_sp_ctrl, 12>>,
           <<reg_pal_sel, 10>>>>) :
     c20 \in {0, 132, 133, 134, 136, 137}, sc0 \in 0 .. 3,
     c21 \in {0, 132, 133, 137}, sc1 \in 0 .. 3}

\* with or without a tile map (all vectors 0), a sprite (or none) inside
\* or outside the layer
InitAssert ==
  \E regs \in AssertRegs, c \in {0, 4097}, x \in {0, -16}, v \in {0, 1} :
    InitPass(regs, Bytes(TileMap(c, Len(MapAddrs)) \o Palettes(31, 31744)),
             Bytes(SpriteBytes(0, v, 0, x, 0, x, 0)), <<33, 0>>,
             {<<31, 31744>>})

SpecAssert == InitAssert /\ [][NextPass]_vars

\* the worker runs whenever it can
FairAssert == SpecAssert /\ WF_vars(NextPass)

\* the snapshot enables background idx without bitmap mode, with tile size
\* 8 and scroll mode 4P
FourPage8(idx) ==
  LET c1 == Rd(ppu_regs_shadow, reg_bkg_ctrl1(idx))
      c2 == Rd(ppu_regs_shadow, reg_bkg_ctrl2(idx))
  IN /\ (c2 \div 128) % 2 = 1
     /\ c2 % 2 = 0
     /\ (c1 \div 4) % 4 = 3
     /\ ~(idx = 0 /\ (c2 \div 2) % 2 = 1)

\* C18: a pass ends in a fatal assertion exactly when its snapshot enables
\* a background that is non-bitmap with tile size 8 and scroll mode 4P;
\* every other pass runs to completion and sets render_done; the IDX_64
\* decoder only meets the bit positions 0, 2, 4 and 6 it handles
C18_AssertOnlyFourPage8 ==
  /\ [](wpc = "aborted" => (FourPage8(0) \/ FourPage8(1)))
  /\ []((FourPage8(0) \/ FourPage8(1)) => ~render_done)
  /\ ((FourPage8(0) \/ FourPage8(1)) ~> (wpc = "aborted"))
  /\ (~(FourPage8(0) \/ FourPage8(1)) ~> render_done)
  /\ [](\A h \in g_blit :
          \A k \in 0 .. (h.b.w * h.b.h - 1) :
            TexelRaw(h.b.fmt, h.b.pa, k) >= 0)

\* background 1 was drawn and the pass ended in the assertion for
\* background 0
C18_Witness ==
  /\ wpc = "aborted"
  /\ FourPage8(0)
  /\ ~FourPage8(1)
  /\ get_bit(Rd(ppu_regs_shadow, reg_bkg_ctrl2_1), 7)
  /\ ~render_done

(***************************************************************************)
(* Register writes while a pass is rendering                               *)
(***************************************************************************)
\* sprite 0 at (0, 0) on layer 0 with palette 0, over a ROM whose texels
\* alternate between the indices 1 and 2, and a palette with four colours
ShadowSpram == Bytes(SpriteBytes(0, 1, 0, 0, 0, 0, 0))
ShadowVram == Bytes(Palettes(31, 31744))
ShadowRom == <<33, 0>>

\* register files: sprites off or on with both palettes, bank 0 or bank 1
\* routed to the output
ShadowRegs ==
  {Bytes(<<<<reg_sp_ctrl, sc>>, <<reg_pal_sel, ps>>>>) :
     sc \in {0, 12}, ps \in {2, 8}}
ShadowWrites == {<<24, 12>>, <<24, 0>>, <<14, 2>>, <<14, 8>>}

InitShadow ==
  \E regs \in ShadowRegs :
    /\ ppu_regs = regs
    /\ ppu_regs_shadow = Zeroes
    /\ vram = ShadowVram
    /\ spram = ShadowSpram
    /\ rom = ShadowRom
    /\ layers \in {[l \in 0 .. 3 |-> [x \in Win |-> c]] : c \in InitCells}
    /\ obuf = [x \in Win |-> <<0, 0, 0, 0>>]
    /\ ticks = 0
    /\ render_ready = FALSE
    /\ kill_renderer = FALSE
    /\ render_done = FALSE
    /\ do_render_m = "free"
    /\ regs_mutex = "free"
    /\ cpu_pc = "idle"
    /\ cpu_tmp = 0
    /\ ret = 0
    /\ wpc = "loop"
    /\ copy_i = 0
    /\ merge_i = 0
    /\ sp_i = 0
    /\ ppc = "idle"
    /\ g_call = [op |-> "none", addr |-> 0, data |-> 0, pre |-> 0]
    /\ g_win = [A |-> 0, data |-> <<>>]
    /\ g_ops = 0
    /\ g_calls = 0
    /\ g_wraps = 0
    /\ g_signals = 0
    /\ g_passes = 0
    /\ g_snaps = {regs}
    /\ g_blit = {}
    /\ g_vlast = ShadowVram

\* the positions of the worker in a pass after the copy of the registers
DrawPcs == {"clear", "bg1", "bg0", "sprites", "merge", "r_end"}

\* the CPU context writes a register while the worker is past the copy
ShadowWrite ==
  /\ g_ops < MaxOps
  /\ wpc \in DrawPcs
  /\ g_ops' = g_ops + 1
  /\ \E w \in ShadowWrites : ppu_write(w[1], w[2])

NextShadow == CpuTicks \/ ShadowWrite \/ Worker

SpecShadow == InitShadow /\ [][NextShadow]_vars

\* the pixel of column x a pass over the register file regs shows for
\* these memories: black with the sprites off, else the colour of the
\* sprite's texel in the bank register 0x0E routes
Shown(regs, x) ==
  IF ~get_bit(Rd(regs, reg_sp_ctrl), 2) THEN <<255, 0, 0, 0>>
  ELSE IF Rd(regs, reg_pal_sel) = 2
       THEN (IF x % 2 = 0 THEN <<255, 255, 0, 0>> ELSE <<255, 0, 255, 0>>)
       ELSE (IF x % 2 = 0 THEN <<255, 0, 0, 255>>
             ELSE <<255, 127, 127, 127>>)

\* C16: after the copy a pass reads registers only from the shadow: the
\* shadow does not change until the pass ends, the output of the pass is
\* the picture of the register file it copied whatever is written to the
\* live registers meanwhile, and the copy of the next pass holds those
\* writes
C16_PassUsesShadow ==
  /\ [](wpc = "r_end" => \A x \in Win : obuf[x] = Shown(ppu_regs_shadow, x))
  /\ [](wpc = "r_unlock" => ppu_regs_shadow = ppu_regs)
  /\ [][(wpc \in DrawPcs) => ppu_regs_shadow' = ppu_regs_shadow]_vars

\* a pass has finished merging after writes that would change the picture,
\* and shows the picture of its snapshot
C16_Witness ==
  /\ wpc = "r_end"
  /\ g_ops >= 1
  /\ \E x \in Win : /\ Shown(ppu_regs, x) # Shown(ppu_regs_shadow, x)
                    /\ obuf[x] = Shown(ppu_regs_shadow, x)
  /\ get_bit(Rd(ppu_regs_shadow, reg_sp_ctrl), 2)

(***************************************************************************)
(* The VRAM reads of one render pass                                       *)
(***************************************************************************)
\* tile-map addresses that hold a cell in the sampled VRAMs: the first and
\* the last cell of the pages of either tile size
ReadsMapAddrs == {0, 2, 64, 510, 512, 1024, 2046, 2048, 2560, 4094}

\* a VRAM with the cell c at every address of ReadsMapAddrs and every entry
\* of both palettes solid, its blue field telling the entries apart
ReadsVram(c) ==
  LET byte(a) ==
        IF a >= pal1_base
        THEN (IF a % 2 = 0 THEN 1 + ((a \div 2) % 31) ELSE 0)
        ELSE IF a \in ReadsMapAddrs THEN c % 256
        ELSE IF (a - 1) \in ReadsMapAddrs THEN c \div 256
        ELSE 0
  IN [a \in {a \in 0 .. (VramSize - 1) : byte(a) # 0} |-> byte(a)]

\* snapshots with background idx on with both palettes: in 16 colours with
\* every scroll mode, tile size (or bitmap), x8 and y8, and with tile size 8
\* and a fixed page in every pixel format and palette mode
ReadsRegs(idx) ==
  {Bytes(<<<<reg_bkg_ctrl2(idx), c2c1[1]>>, <<reg_bkg_ctrl1(idx), c2c1[2]>>,
           <<reg_bkg_pal_sel, 15>>, <<reg_sp_ctrl, 12>>,
           <<reg_pal_sel, 10>>>>) :
     c2c1 \in {<<128 + 64 + 4 + m, 4 * sc + xy>> :
                 m \in (IF idx = 0 THEN {0, 1, 2} ELSE {0, 1}),
                 sc \in 0 .. 3, xy \in 0 .. 3}
              \cup
              {<<128 + 64 * p + 48 + 4 * clr, 16 * hc>> :
                 p \in {0, 1}, clr \in 0 .. 3,
                 hc \in (IF idx = 0 THEN {0, 1} ELSE {0})}}

\* a pass about to clear the layers, over a ROM of bytes 0xFF (every index
\* the highest of its format) or of bytes that differ, with or without a
\* sprite of palette 15
InitReads ==
  \E idx \in {0, 1} :
    \E regs \in ReadsRegs(idx), c \in {61441, 4097},
       r \in {<<255, 0>>, <<16, 1>>},
       sp \in {Zeroes, Bytes(SpriteBytes(0, 1, 15, 0, 0, 0, 0))} :
      InitPass(regs, ReadsVram(c), sp, r, {ClearCell})

SpecReads == InitReads /\ [][NextPass]_vars

\* C21: every VRAM index the renderer reads is inside VRAM and inside its
\* region: the two bytes of the cell of a mapped tile are below 0x1C00,
\* the entries read from palette 1 are in 0x1C00..0x1DFF and those read
\* from palette 0 in 0x1E00..0x1FFF, for backgrounds and for sprites
C21_ReadsInRegion ==
  \A r \in StepReads :
    /\ r.at >= 0
    /\ r.at < 8192
    /\ r.kind = "map" => r.at < 7168
    /\ r.kind = "pal1" => (r.at >= 7168 /\ r.at < 7680)
    /\ r.kind = "pal0" => (r.at >= 7680 /\ r.at < 8192)

\* render_background(0) has drawn a tile whose blit read the last entry of
\* both palette regions, and the cell under it holds the entry read from
\* palette 0
C21_Witness ==
  /\ wpc = "sprites"
  /\ sp_i = 0
  /\ \E h \in g_blit :
       /\ [kind |-> "pal0", at |-> 8191] \in PalReads(h.b)
       /\ [kind |-> "pal1", at |-> 7679] \in PalReads(h.b)
       /\ HitTexel(h) # 0
       /\ layers[h.layer][h.x][1] = PalEntry(h.b.pal0, HitTexel(h))

\* the page of a tile-map address for tiles of the given size: pages of 32
\* x 32 cells for size 8 and of 16 x 16 cells for size 16
PageOf(size, addr) == IF size = 8 THEN addr \div 2048 ELSE addr \div 512

\* C22: in the scroll modes H and V the tile grid of a background is two
\* full pages: with 8-pixel tiles the columns (rows in mode V) 0..31 come
\* from one page and 32..63 from the other, with 16-pixel tiles 0..15 and
\* 16..31, and no two mapped tiles have the same cell address
C22_TwoFullPages ==
  \A idx \in {0, 1} :
    LET s == BkgSetup(idx)
        ms == MappedTiles(idx, s)
        n == IF s.tile_width = 8 THEN 32 ELSE 16
        along(m) == IF s.scrl = SCROLL_H THEN m.tx ELSE m.ty
        first == {PageOf(s.tile_width, m.addr) : m \in {m \in ms : along(m) < n}}
        second == {PageOf(s.tile_width, m.addr) :
                     m \in {m \in ms : along(m) >= n}}
    IN (/\ wpc = (IF idx = 1 THEN "bg1" ELSE "bg0")
        /\ s.en /\ ~s.bmp /\ s.scrl \in {SCROLL_H, SCROLL_V})
         => /\ Cardinality(first) = 1
            /\ Cardinality(second) = 1
            /\ first # second
            /\ Cardinality({m.addr : m \in ms}) = Cardinality(ms)

====
